---- MODULE Spec2Model ----
(***************************************************************************)
(* Model of the ticket similarity index of denniszielke/ticket-agents:     *)
(* the local flat store (ticket_indexer.TicketIndexer), its JSON snapshot, *)
(* its search, and the indexing loop of the remote store                   *)
(* (azure_search_indexer.AzureSearchIndexer).                              *)
(***************************************************************************)
EXTENDS Integers, Sequences, FiniteSets, TLC

(***************************************************************************)
(* Bounds of the model.                                                    *)
(***************************************************************************)
MaxBatch == 2      \* longest ticket list handed to index_tickets
MaxStore == 2      \* most entries the local store grows to
MaxK == 2          \* largest top_k asked of find_similar_tickets
MaxNeighbours == 3 \* longest list handed to recommend_resolution

(***************************************************************************)
(* Tickets, as github_fetcher._extract_issue_data builds them.  A missing  *)
(* support level is None.  TicketA and TicketB differ only in their number *)
(* so they have the same embed text.                                       *)
(***************************************************************************)
None == "<None>"

TicketA ==
  [number |-> 1, title |-> "vpn", body |-> "", labels |-> <<"bug">>,
   state |-> "open", category |-> "configuration", support_level |-> "L1",
   comments |-> <<>>]

TicketB ==
  [number |-> 2, title |-> "vpn", body |-> "", labels |-> <<"bug">>,
   state |-> "open", category |-> "configuration", support_level |-> "L1",
   comments |-> <<>>]

TicketC ==
  [number |-> 3, title |-> "disk", body |-> "full", labels |-> <<>>,
   state |-> "closed", category |-> "operational", support_level |-> None,
   comments |-> <<"cleaned">>]

TicketPool == {TicketA, TicketB, TicketC}

NoTicket ==
  [number |-> 0, title |-> "", body |-> "", labels |-> <<>>,
   state |-> "", category |-> "", support_level |-> None,
   comments |-> <<>>]

\* the ticket lists handed to index_tickets
Batches == UNION {[1..n -> {TicketA, TicketC}] : n \in 0..MaxBatch}

Queries == {"vpn", "disk"}

(***************************************************************************)
(* Text.  A text is a sequence of lines; a line is a label and the parts   *)
(* that are joined by sep to give its value.                               *)
(***************************************************************************)
Line(label, sep, parts) == [label |-> label, sep |-> sep, parts |-> parts]

Truthy(s) == s # None /\ s # ""

LastN(s, n) ==
  IF Len(s) <= n THEN s ELSE SubSeq(s, Len(s) - n + 1, Len(s))

\* TicketIndexer._create_ticket_text
CreateTicketText(ticket) ==
  LET parts == << Line("Title: ", "", <<ticket.title>>),
                  Line("Body: ", "", <<ticket.body>>),
                  Line("Labels: ", ", ", ticket.labels),
                  Line("Category: ", "", <<ticket.category>>) >>
      withLevel == IF Truthy(ticket.support_level)
                   THEN Append(parts, Line("Support Level: ", "", <<ticket.support_level>>))
                   ELSE parts
  IN IF ticket.state = "closed" /\ ticket.comments # <<>>
     THEN Append(withLevel, Line("Resolution: ", " ", LastN(ticket.comments, 3)))
     ELSE withLevel

\* the text of a query string
QueryText(q) == << Line("", "", <<q>>) >>

(***************************************************************************)
(* The embedding provider: a fixed function of the text when it answers.   *)
(* Whether it answers or raises is chosen in the actions.                  *)
(***************************************************************************)
Topic(text) == text[1].parts[1]

GenerateEmbedding(text) ==
  CASE Topic(text) = "vpn" -> <<1, 0>>
    [] Topic(text) = "disk" -> <<0, 1>>
    [] OTHER -> <<1, 1>>

(***************************************************************************)
(* The index file.  Its content is a sequence of tokens; json.dump writes  *)
(* the object {"tickets": [...], "embeddings": [...]} token by token.  A   *)
(* ticket (strings, an integer, lists, None) and a vector (floats) are     *)
(* values JSON gives back unchanged, so each is one token.                 *)
(***************************************************************************)
Tok(k) == [k |-> k, t |-> NoTicket, v |-> <<>>]
TicketTok(t) == [k |-> "ticket", t |-> t, v |-> <<>>]
VecTok(v) == [k |-> "vec", t |-> NoTicket, v |-> v]

\* json.dump(data) of save_index
JsonDump(tk, em) ==
  <<Tok("{"), Tok("tickets"), Tok("[")>>
    \o [i \in 1..Len(tk) |-> TicketTok(tk[i])]
    \o <<Tok("]"), Tok("embeddings"), Tok("[")>>
    \o [i \in 1..Len(em) |-> VecTok(em[i])]
    \o <<Tok("]"), Tok("}")>>

Prefix(s, n) == SubSeq(s, 1, n)

ListEnd(c, from) ==
  IF \E j \in from..Len(c) : c[j].k = "]"
  THEN CHOOSE j \in from..Len(c) :
         c[j].k = "]" /\ \A i \in from..(j - 1) : c[i].k # "]"
  ELSE 0

\* one "key": [items] member starting at pos, or nothing if the key is another
ParseMember(c, pos, key, kind) ==
  IF pos > Len(c) \/ c[pos].k # key
  THEN [ok |-> TRUE, present |-> FALSE, items |-> <<>>, next |-> pos]
  ELSE LET end == ListEnd(c, pos + 2)
       IN IF pos + 1 <= Len(c) /\ c[pos + 1].k = "[" /\ end # 0
             /\ \A i \in (pos + 2)..(end - 1) : c[i].k = kind
          THEN [ok |-> TRUE, present |-> TRUE,
                items |-> SubSeq(c, pos + 2, end - 1), next |-> end + 1]
          ELSE [ok |-> FALSE, present |-> FALSE, items |-> <<>>, next |-> pos]

\* json.load(f): ok iff the content is one complete JSON document
JsonLoad(c) ==
  LET bad == [ok |-> FALSE, isDict |-> FALSE,
              hasTickets |-> FALSE, tickets |-> <<>>,
              hasEmbeddings |-> FALSE, embeddings |-> <<>>]
  IN IF c = <<Tok("["), Tok("]")>>
     THEN [bad EXCEPT !.ok = TRUE]
     ELSE IF Len(c) >= 2 /\ c[1].k = "{"
     THEN LET m1 == ParseMember(c, 2, "tickets", "ticket")
              m2 == ParseMember(c, m1.next, "embeddings", "vec")
          IN IF m1.ok /\ m2.ok /\ m2.next = Len(c) /\ c[Len(c)].k = "}"
             THEN [ok |-> TRUE, isDict |-> TRUE,
                   hasTickets |-> m1.present,
                   tickets |-> [i \in 1..Len(m1.items) |-> m1.items[i].t],
                   hasEmbeddings |-> m2.present,
                   embeddings |-> [i \in 1..Len(m2.items) |-> m2.items[i].v]]
             ELSE bad
     ELSE bad

NoFile == [exists |-> FALSE, content |-> <<>>]
File(c) == [exists |-> TRUE, content |-> c]

\* files the index path can hold before the program first runs
InitialFiles ==
  { NoFile,
    File(<<Tok("junk")>>),
    File(<<Tok("["), Tok("]")>>),
    File(JsonDump(<<TicketC>>, <<GenerateEmbedding(CreateTicketText(TicketC))>>)) }

\* variant: only the tickets are restored
LoadIndex_TicketsOnly(d, tk0, em0) ==
  IF ~d.exists
  THEN [tickets |-> tk0, embeddings |-> em0, raised |-> FALSE]
  ELSE LET data == JsonLoad(d.content)
       IN IF ~data.ok \/ ~data.isDict
          THEN [tickets |-> tk0, embeddings |-> em0, raised |-> FALSE]
          ELSE [tickets |-> IF data.hasTickets THEN data.tickets ELSE <<>>,
                embeddings |-> em0,
                raised |-> FALSE]

\* variant: a parse failure is not caught
LoadIndex_NoCatch(d, tk0, em0) ==
  IF ~d.exists
  THEN [tickets |-> tk0, embeddings |-> em0, raised |-> FALSE]
  ELSE LET data == JsonLoad(d.content)
       IN IF ~data.ok \/ ~data.isDict
          THEN [tickets |-> tk0, embeddings |-> em0, raised |-> TRUE]
          ELSE [tickets |-> IF data.hasTickets THEN data.tickets ELSE <<>>,
                embeddings |-> IF data.hasEmbeddings THEN data.embeddings ELSE <<>>,
                raised |-> FALSE]

\* TicketIndexer.load_index, from the state __init__ leaves (tk0, em0)
LoadIndex(d, tk0, em0) ==
  IF ~d.exists
  THEN [tickets |-> tk0, embeddings |-> em0, raised |-> FALSE]
  ELSE LET data == JsonLoad(d.content)
       IN IF ~data.ok \/ ~data.isDict
          THEN [tickets |-> tk0, embeddings |-> em0, raised |-> FALSE]
          ELSE [tickets |-> IF data.hasTickets THEN data.tickets ELSE <<>>,
                embeddings |-> IF data.hasEmbeddings THEN data.embeddings ELSE <<>>,
                raised |-> FALSE]

\* dict.get(field, default)
Get(t, field, default) == IF field \in DOMAIN t THEN t[field] ELSE default

\* the counting loop of get_stats over one field
CountBy(tk, field, default) ==
  [v \in {Get(tk[i], field, default) : i \in 1..Len(tk)} |->
     Cardinality({i \in 1..Len(tk) : Get(tk[i], field, default) = v})]

\* TicketIndexer.get_stats; ticket['state'] has no default
GetStats(tk) ==
  [total_tickets |-> Len(tk),
   by_state |-> [v \in {tk[i].state : i \in 1..Len(tk)} |->
                   Cardinality({i \in 1..Len(tk) : tk[i].state = v})],
   by_category |-> CountBy(tk, "category", "general"),
   by_support_level |-> CountBy(tk, "support_level", "unspecified")]

\* the search of AzureSearchIndexer.get_stats returns at most this many documents
stats_top == 1000

\* AzureSearchIndexer.get_stats over the documents of the index, in the
\* order the search returns them
AzGetStats(docs) ==
  LET results == SubSeq(docs, 1, IF Len(docs) < stats_top THEN Len(docs) ELSE stats_top)
      level(r) == IF Get(r, "support_level", "unspecified") \in {None, ""}
                  THEN "unspecified" ELSE Get(r, "support_level", "unspecified")
  IN [total_tickets |-> Len(results),
      by_state |-> CountBy(results, "state", "unknown"),
      by_category |-> CountBy(results, "category", "general"),
      by_support_level |->
        [v \in {level(results[i]) : i \in 1..Len(results)} |->
           Cardinality({i \in 1..Len(results) : level(results[i]) = v})]]

(***************************************************************************)
(* Cosine similarity and ranking.  A similarity is kept as the exact       *)
(* rational sign(d)*d^2 / (|q|^2 |v|^2), which orders as the cosine does;  *)
(* a zero vector has similarity 0, as sklearn's normalisation gives.       *)
(***************************************************************************)
RECURSIVE DotFrom(_, _, _)
DotFrom(a, b, i) ==
  IF i > Len(a) THEN 0 ELSE a[i] * b[i] + DotFrom(a, b, i + 1)

Dot(a, b) == DotFrom(a, b, 1)

Abs(x) == IF x < 0 THEN -x ELSE x

Min(a, b) == IF a < b THEN a ELSE b

Similarity(q, v) ==
  LET d == Dot(q, v)
      n == Dot(q, q) * Dot(v, v)
  IN IF n = 0 THEN [num |-> 0, den |-> 1] ELSE [num |-> d * Abs(d), den |-> n]

\* cosine_similarity([query_embedding], self.embeddings)[0]
CosineSimilarity(q, X) == [i \in 1..Len(X) |-> Similarity(q, X[i])]

SimLess(a, b) == a.num * b.den < b.num * a.den

SimEq(a, b) == a.num * b.den = b.num * a.den

Perms(n) == {p \in [1..n -> 1..n] : \A i, j \in 1..n : i # j => p[i] # p[j]}

\* np.argsort(similarities): any ascending order; the default sort kind is
\* not stable, so equal similarities may come out in either order
ArgSort(sims) ==
  {p \in Perms(Len(sims)) :
     \A i, j \in 1..Len(sims) : i < j => ~SimLess(sims[p[j]], sims[p[i]])}

\* variant: the order is not reversed
TopIndices_NoReverse(p, k) == [i \in 1..Min(k, Len(p)) |-> p[i]]

\* p[::-1][:top_k]
TopIndices(p, k) == [i \in 1..Min(k, Len(p)) |-> p[Len(p) + 1 - i]]

\* the result loop: a copy of each ticket with its similarity_score
PrepareResults(tk, sims, top) ==
  [i \in 1..Len(top) |->
     [ticket |-> tk[top[i]], idx |-> top[i], similarity_score |-> sims[top[i]]]]

(***************************************************************************)
(* State.                                                                  *)
(***************************************************************************)
VARIABLES
  backend,        \* "local" or "azure": the indexer main.py constructs
  tickets,        \* TicketIndexer.tickets
  embeddings,     \* TicketIndexer.embeddings
  disk,           \* the index file
  pc,             \* position of the index_tickets call on the local store
  wBatch,         \* the tickets argument of the current or last call
  wI,             \* its loop position (1-based)
  wEmb,           \* the embedding of the ticket at wI once generated
  wData,          \* data['embeddings'] built by save_index
  lastResult,     \* "constructed", "running", "returned" or "raised"
  fault,          \* what failed in the last index_tickets call
  fpc,            \* position of the find_similar_tickets call
  fQuery,         \* its query
  fK,             \* its top_k
  fSims,          \* similarities it computed
  fTop,           \* top_indices it computed
  results,        \* what it returned
  fOutcome,       \* "none", "returned" or "raised"
  seenTickets,    \* self.tickets as the search read it
  seenEmbeddings, \* self.embeddings as the search read it
  preTickets,     \* the store when the current index_tickets call began
  preEmbeddings,
  snapshot,       \* the last content written to the file in full
  insertedPos,    \* batch positions inserted by the last index_tickets call
  embeddedPos,    \* batch positions whose vectors were all generated
  failedAt,       \* batch position whose embedding call raised, or 0
  rpc,            \* position of the index_tickets call on the remote store
  rBatch,         \* its tickets argument
  rI,             \* its loop position
  rContent,       \* content_embedding of the ticket at rI
  documents,      \* documents prepared so far
  rOff,           \* offset of the next upload batch
  indexExists,    \* whether the search index exists
  remoteDocs,     \* documents held by the search index
  sent,           \* the batches handed to upload_documents by the current call
  created,        \* whether the current call ran create_index
  completionClient, \* whether self._completion_client has been built
  pc2,            \* position of a second index_tickets call (another thread)
  wBatch2,        \* its tickets argument
  wI2,            \* its loop position
  wEmb2,          \* the embedding of the ticket at wI2 once generated
  wData2,         \* data['embeddings'] built by its save_index
  result2,        \* "none", "running" or "returned"
  impl,           \* the recommender in use: "agent" (resolution_agent.py) or
                  \* "chat" (resolution_recommender.py)
  agentBuilt,     \* whether its agent (self.agent) or client (self.client) exists
  qpc,            \* position of the recommend_resolution call
  neighbours,     \* its similar_tickets argument
  completionCalls, \* completion calls made by the current call
  recResult,      \* the dictionary it returned
  recOutcome,     \* "none", "returned" or "raised"
  cliOutcome,     \* "none", "completed" or "error": the recommend command
  cAvg,           \* arguments and results of the last direct calls of
  cN,             \* _calculate_confidence on both classes
  gradeAgent,
  gradeRecommender,
  callFn,         \* the function last called on its own, or "none"
  callArg,        \* its argument
  callRet         \* what it returned

storeVars == <<tickets, embeddings, disk>>
writerVars == <<pc, wBatch, wI, wEmb, wData>>
outcomeVars == <<lastResult, fault>>
readerVars == <<fpc, fQuery, fK, fSims, fTop, results, fOutcome, seenTickets, seenEmbeddings>>
ghostVars == <<preTickets, preEmbeddings, snapshot, insertedPos, embeddedPos, failedAt>>
azVars == <<rpc, rBatch, rI, rContent, documents, rOff, indexExists, remoteDocs,
            sent, created, completionClient>>
w2Vars == <<pc2, wBatch2, wI2, wEmb2, wData2, result2>>

recVars == <<impl, agentBuilt, qpc, neighbours, completionCalls, recResult, recOutcome,
             cliOutcome, cAvg, cN, gradeAgent, gradeRecommender>>

callVars == <<callFn, callArg, callRet>>

vars == <<backend, storeVars, writerVars, outcomeVars, readerVars, ghostVars, azVars,
          w2Vars, recVars, callVars>>

NoVec == <<>>

\* TicketIndexer.__init__ on the file d (config.OPENAI_API_KEY is set)
Constructed(d) == LoadIndex(d, <<>>, <<>>)

\* the state once main.py has constructed its indexer over the file d
Started(b, d) ==
  /\ backend = b
  /\ disk = d
  /\ tickets = (IF b = "local" THEN Constructed(d).tickets ELSE <<>>)
  /\ embeddings = (IF b = "local" THEN Constructed(d).embeddings ELSE <<>>)
  /\ pc = "idle" /\ wBatch = <<>> /\ wI = 0 /\ wEmb = NoVec /\ wData = <<>>
  /\ lastResult = "constructed" /\ fault = "none"
  /\ fpc = "idle" /\ fQuery = "" /\ fK = 0 /\ fSims = <<>> /\ fTop = <<>>
  /\ results = <<>> /\ fOutcome = "none"
  /\ seenTickets = <<>> /\ seenEmbeddings = <<>>
  /\ preTickets = tickets /\ preEmbeddings = embeddings
  /\ snapshot = [tickets |-> tickets, embeddings |-> embeddings]
  /\ insertedPos = {} /\ embeddedPos = {} /\ failedAt = 0
  /\ rpc = "idle" /\ rBatch = <<>> /\ rI = 0 /\ rContent = NoVec
  /\ documents = <<>> /\ rOff = 0
  /\ remoteDocs = {} /\ sent = <<>> /\ created = FALSE /\ completionClient = FALSE
  /\ pc2 = "idle" /\ wBatch2 = <<>> /\ wI2 = 0 /\ wEmb2 = NoVec /\ wData2 = <<>>
  /\ result2 = "none"
  /\ impl = "agent" /\ agentBuilt = FALSE /\ qpc = "idle" /\ neighbours = <<>>
  /\ completionCalls = 0 /\ recResult = [recommendation |-> None]
  /\ recOutcome = "none" /\ cliOutcome = "none"
  /\ cAvg = [num |-> 0, den |-> 1] /\ cN = 0
  /\ gradeAgent = "none" /\ gradeRecommender = "none"
  /\ callFn = "none" /\ callRet = <<>>

Init ==
  \/ \E d \in InitialFiles : Started("local", d) /\ callArg = <<>> /\ indexExists = FALSE
  \/ Started("azure", NoFile) /\ callArg = <<>> /\ indexExists \in BOOLEAN

(***************************************************************************)
(* TicketIndexer.index_tickets on the local store.                         *)
(***************************************************************************)
\* the call starts: line 43, the loop is entered
IndexTicketsBegin(batch) ==
  /\ backend = "local" /\ pc = "idle"
  /\ Len(tickets) + Len(batch) <= MaxStore
  /\ pc' = "loop" /\ wBatch' = batch /\ wI' = 1 /\ wEmb' = NoVec /\ wData' = <<>>
  /\ lastResult' = "running" /\ fault' = "none"
  /\ preTickets' = tickets /\ preEmbeddings' = embeddings
  /\ insertedPos' = {} /\ embeddedPos' = {} /\ failedAt' = 0
  /\ UNCHANGED <<backend, callVars, w2Vars, recVars, storeVars, readerVars, snapshot, azVars>>

\* lines 47-50: the embedding of the ticket at wI is generated
EmbedTicket ==
  /\ pc = "loop" /\ wI <= Len(wBatch)
  /\ wEmb' = GenerateEmbedding(CreateTicketText(wBatch[wI]))
  /\ embeddedPos' = embeddedPos \cup {wI}
  /\ pc' = "store_ticket"
  /\ UNCHANGED <<backend, callVars, w2Vars, recVars, storeVars, wBatch, wI, wData, outcomeVars, readerVars,
                 preTickets, preEmbeddings, snapshot, insertedPos, failedAt, azVars>>

\* lines 50-54 when the embedding collaborator answers with a vector of
\* another length: _generate_embedding returns response.data[0].embedding as
\* it is (line 142) and index_tickets does not look at its length
EmbedTicketResized ==
  /\ pc = "loop" /\ wI <= Len(wBatch)
  /\ wEmb' = Append(GenerateEmbedding(CreateTicketText(wBatch[wI])), 0)
  /\ embeddedPos' = embeddedPos \cup {wI}
  /\ pc' = "store_ticket"
  /\ UNCHANGED <<backend, callVars, w2Vars, recVars, storeVars, wBatch, wI, wData, outcomeVars, readerVars,
                 preTickets, preEmbeddings, snapshot, insertedPos, failedAt, azVars>>

\* variant: the ticket is appended before its embedding is requested
EmbedTicketRaise_TicketStored ==
  /\ pc = "loop" /\ wI <= Len(wBatch)
  /\ tickets' = Append(tickets, wBatch[wI])
  /\ failedAt' = wI
  /\ pc' = "idle" /\ wI' = 0 /\ wEmb' = NoVec
  /\ lastResult' = "raised" /\ fault' = "embedding"
  /\ UNCHANGED <<backend, callVars, w2Vars, recVars, embeddings, disk, wBatch, wData, readerVars,
                 preTickets, preEmbeddings, snapshot, insertedPos, embeddedPos, azVars>>

\* variant: the failure is swallowed and the loop goes on to the next ticket
EmbedTicketRaise_Continue ==
  /\ pc = "loop" /\ wI <= Len(wBatch)
  /\ failedAt' = wI
  /\ wI' = wI + 1
  /\ fault' = "embedding"
  /\ UNCHANGED <<backend, callVars, w2Vars, recVars, storeVars, pc, wBatch, wEmb, wData, lastResult, readerVars,
                 preTickets, preEmbeddings, snapshot, insertedPos, embeddedPos, azVars>>

\* line 50 raises: the exception leaves index_tickets
EmbedTicketRaise ==
  /\ pc = "loop" /\ wI <= Len(wBatch)
  /\ failedAt' = wI
  /\ pc' = "idle" /\ wI' = 0 /\ wEmb' = NoVec
  /\ lastResult' = "raised" /\ fault' = "embedding"
  /\ UNCHANGED <<backend, callVars, w2Vars, recVars, storeVars, wBatch, wData, readerVars,
                 preTickets, preEmbeddings, snapshot, insertedPos, embeddedPos, azVars>>

\* line 53
StoreTicket ==
  /\ pc = "store_ticket"
  /\ tickets' = Append(tickets, wBatch[wI])
  /\ pc' = "store_embedding"
  /\ UNCHANGED <<backend, callVars, w2Vars, recVars, embeddings, disk, wBatch, wI, wEmb, wData, outcomeVars,
                 readerVars, ghostVars, azVars>>

\* line 54, and the loop moves on
StoreEmbedding ==
  /\ pc = "store_embedding"
  /\ embeddings' = Append(embeddings, wEmb)
  /\ insertedPos' = insertedPos \cup {wI}
  /\ wI' = wI + 1 /\ wEmb' = NoVec
  /\ pc' = "loop"
  /\ UNCHANGED <<backend, callVars, w2Vars, recVars, tickets, disk, wBatch, wData, outcomeVars, readerVars,
                 preTickets, preEmbeddings, snapshot, embeddedPos, failedAt, azVars>>

\* save_index lines 146-151: data is built and the file is opened for
\* writing, which truncates it
SaveIndexOpen ==
  /\ pc = "loop" /\ wI > Len(wBatch)
  /\ wData' = embeddings
  /\ disk' = File(<<>>)
  /\ pc' = "dump"
  /\ UNCHANGED <<backend, callVars, w2Vars, recVars, tickets, embeddings, wBatch, wI, wEmb, outcomeVars,
                 readerVars, ghostVars, azVars>>

\* open() raises: nothing catches it in save_index or index_tickets
SaveIndexOpenRaise ==
  /\ pc = "loop" /\ wI > Len(wBatch)
  /\ pc' = "idle" /\ wI' = 0
  /\ lastResult' = "raised" /\ fault' = "open"
  /\ UNCHANGED <<backend, callVars, w2Vars, recVars, storeVars, wBatch, wEmb, wData, readerVars, ghostVars, azVars>>

\* variant: only the entries of this call are written
SaveIndexDump_BatchOnly ==
  /\ pc = "dump"
  /\ disk' = File(JsonDump(SubSeq(tickets, Len(preTickets) + 1, Len(tickets)),
                           SubSeq(wData, Len(preEmbeddings) + 1, Len(wData))))
  /\ snapshot' = [tickets |-> tickets, embeddings |-> wData]
  /\ pc' = "idle" /\ wI' = 0 /\ wData' = <<>>
  /\ lastResult' = "returned"
  /\ UNCHANGED <<backend, callVars, w2Vars, recVars, tickets, embeddings, wBatch, wEmb, fault, readerVars,
                 preTickets, preEmbeddings, insertedPos, embeddedPos, failedAt, azVars>>

\* line 152 and the end of the call: the whole document reaches the file
SaveIndexDump ==
  /\ pc = "dump"
  /\ disk' = File(JsonDump(tickets, wData))
  /\ snapshot' = [tickets |-> tickets, embeddings |-> wData]
  /\ pc' = "idle" /\ wI' = 0 /\ wData' = <<>>
  /\ lastResult' = "returned"
  /\ UNCHANGED <<backend, callVars, w2Vars, recVars, tickets, embeddings, wBatch, wEmb, fault, readerVars,
                 preTickets, preEmbeddings, insertedPos, embeddedPos, failedAt, azVars>>

\* the write fails part-way: a proper prefix of the document is in the file
SaveIndexDumpRaise ==
  /\ pc = "dump"
  /\ \E n \in 0..(Len(JsonDump(tickets, wData)) - 1) :
       disk' = File(Prefix(JsonDump(tickets, wData), n))
  /\ pc' = "idle" /\ wI' = 0 /\ wData' = <<>>
  /\ lastResult' = "raised" /\ fault' = "write"
  /\ UNCHANGED <<backend, callVars, w2Vars, recVars, tickets, embeddings, wBatch, wEmb, readerVars, ghostVars, azVars>>

\* a new process constructs a TicketIndexer on the same file
Construct ==
  /\ backend = "local" /\ pc = "idle" /\ fpc = "idle"
  /\ lastResult # "constructed"
  /\ tickets' = Constructed(disk).tickets
  /\ embeddings' = Constructed(disk).embeddings
  /\ lastResult' = IF Constructed(disk).raised THEN "raised" ELSE "constructed"
  /\ fault' = IF Constructed(disk).raised THEN "load" ELSE "none"
  /\ preTickets' = tickets' /\ preEmbeddings' = embeddings'
  /\ insertedPos' = {} /\ embeddedPos' = {} /\ failedAt' = 0
  /\ fQuery' = "" /\ fK' = 0 /\ fSims' = <<>> /\ fTop' = <<>> /\ results' = <<>>
  /\ fOutcome' = "none" /\ seenTickets' = <<>> /\ seenEmbeddings' = <<>>
  /\ wBatch' = <<>>
  /\ UNCHANGED <<backend, callVars, w2Vars, recVars, disk, pc, wI, wEmb, wData, fpc, snapshot, azVars>>

(***************************************************************************)
(* A second TicketIndexer.index_tickets call on the same store, made by    *)
(* another thread.  The code takes no lock, so its steps interleave with   *)
(* those of the first call.                                                *)
(***************************************************************************)
\* the call starts: line 43, the loop is entered
OtherIndexTicketsBegin(batch) ==
  /\ backend = "local" /\ pc2 = "idle"
  /\ Len(tickets) + Len(batch) <= MaxStore
  /\ pc2' = "loop" /\ wBatch2' = batch /\ wI2' = 1 /\ wEmb2' = NoVec /\ wData2' = <<>>
  /\ result2' = "running"
  /\ UNCHANGED <<backend, callVars, recVars, storeVars, writerVars, outcomeVars, readerVars, ghostVars,
                 azVars>>

\* lines 47-50
OtherEmbedTicket ==
  /\ pc2 = "loop" /\ wI2 <= Len(wBatch2)
  /\ wEmb2' = GenerateEmbedding(CreateTicketText(wBatch2[wI2]))
  /\ pc2' = "store_ticket"
  /\ UNCHANGED <<backend, callVars, recVars, storeVars, writerVars, outcomeVars, readerVars, ghostVars,
                 azVars, wBatch2, wI2, wData2, result2>>

\* line 53
OtherStoreTicket ==
  /\ pc2 = "store_ticket"
  /\ tickets' = Append(tickets, wBatch2[wI2])
  /\ pc2' = "store_embedding"
  /\ UNCHANGED <<backend, callVars, recVars, embeddings, disk, writerVars, outcomeVars, readerVars,
                 ghostVars, azVars, wBatch2, wI2, wEmb2, wData2, result2>>

\* line 54, and the loop moves on
OtherStoreEmbedding ==
  /\ pc2 = "store_embedding"
  /\ embeddings' = Append(embeddings, wEmb2)
  /\ wI2' = wI2 + 1 /\ wEmb2' = NoVec
  /\ pc2' = "loop"
  /\ UNCHANGED <<backend, callVars, recVars, tickets, disk, writerVars, outcomeVars, readerVars,
                 ghostVars, azVars, wBatch2, wData2, result2>>

\* save_index lines 146-151
OtherSaveIndexOpen ==
  /\ pc2 = "loop" /\ wI2 > Len(wBatch2)
  /\ wData2' = embeddings
  /\ disk' = File(<<>>)
  /\ pc2' = "dump"
  /\ UNCHANGED <<backend, callVars, recVars, tickets, embeddings, writerVars, outcomeVars, readerVars,
                 ghostVars, azVars, wBatch2, wI2, wEmb2, result2>>

\* line 152 and the end of the call
OtherSaveIndexDump ==
  /\ pc2 = "dump"
  /\ disk' = File(JsonDump(tickets, wData2))
  /\ snapshot' = [tickets |-> tickets, embeddings |-> wData2]
  /\ pc2' = "idle" /\ wI2' = 0 /\ wData2' = <<>>
  /\ result2' = "returned"
  /\ UNCHANGED <<backend, callVars, recVars, tickets, embeddings, writerVars, outcomeVars, readerVars,
                 preTickets, preEmbeddings, insertedPos, embeddedPos, failedAt,
                 azVars, wBatch2, wEmb2>>

(***************************************************************************)
(* TicketIndexer.find_similar_tickets.                                     *)
(***************************************************************************)
\* line 74 on a store with tickets
FindBegin(q, k) ==
  /\ backend = "local" /\ fpc = "idle"
  /\ tickets # <<>>
  /\ fpc' = "embed" /\ fQuery' = q /\ fK' = k
  /\ fSims' = <<>> /\ fTop' = <<>> /\ results' = <<>> /\ fOutcome' = "none"
  /\ seenTickets' = <<>> /\ seenEmbeddings' = <<>>
  /\ UNCHANGED <<backend, callVars, w2Vars, recVars, storeVars, writerVars, outcomeVars, ghostVars, azVars>>

\* lines 74-75 on a store without tickets: [] and no embedding call
FindEmpty(q, k) ==
  /\ backend = "local" /\ fpc = "idle"
  /\ tickets = <<>>
  /\ fQuery' = q /\ fK' = k
  /\ fSims' = <<>> /\ fTop' = <<>> /\ results' = <<>> /\ fOutcome' = "returned"
  /\ seenTickets' = tickets /\ seenEmbeddings' = embeddings
  /\ UNCHANGED <<backend, callVars, w2Vars, recVars, storeVars, writerVars, outcomeVars, fpc, ghostVars, azVars>>

\* line 78 raises
FindEmbedRaise ==
  /\ fpc = "embed"
  /\ fpc' = "idle" /\ fOutcome' = "raised"
  /\ UNCHANGED <<backend, callVars, w2Vars, recVars, storeVars, writerVars, outcomeVars, fQuery, fK, fSims, fTop,
                 results, seenTickets, seenEmbeddings, ghostVars, azVars>>

\* lines 78-87: the query is embedded, self.embeddings is read, the
\* similarities are sorted
FindRank ==
  /\ fpc = "embed"
  /\ embeddings # <<>>
  /\ LET sims == CosineSimilarity(GenerateEmbedding(QueryText(fQuery)), embeddings)
     IN /\ fSims' = sims
        /\ \E p \in ArgSort(sims) : fTop' = TopIndices(p, fK)
  /\ seenEmbeddings' = embeddings
  /\ fpc' = "collect"
  /\ UNCHANGED <<backend, callVars, w2Vars, recVars, storeVars, writerVars, outcomeVars, fQuery, fK,
                 results, fOutcome, seenTickets, ghostVars, azVars>>

\* lines 81-84 when self.embeddings is still empty: cosine_similarity raises
FindRankRaise ==
  /\ fpc = "embed"
  /\ embeddings = <<>>
  /\ fpc' = "idle" /\ fOutcome' = "raised"
  /\ UNCHANGED <<backend, callVars, w2Vars, recVars, storeVars, writerVars, outcomeVars, fQuery, fK, fSims, fTop,
                 results, seenTickets, seenEmbeddings, ghostVars, azVars>>

\* variant: the score is written to the stored ticket, not to a copy
FindCollect_NoCopy ==
  /\ fpc = "collect"
  /\ results' = PrepareResults(tickets, fSims, fTop)
  /\ tickets' = [i \in 1..Len(tickets) |->
                  IF \E t \in 1..Len(fTop) : fTop[t] = i
                  THEN [similarity_score |-> fSims[i]] @@ tickets[i]
                  ELSE tickets[i]]
  /\ seenTickets' = tickets
  /\ fpc' = "idle" /\ fOutcome' = "returned"
  /\ UNCHANGED <<backend, callVars, w2Vars, recVars, embeddings, disk, writerVars, outcomeVars,
                 fQuery, fK, fSims, fTop, seenEmbeddings, ghostVars, azVars>>

\* lines 89-96: self.tickets is read and the results are returned
FindCollect ==
  /\ fpc = "collect"
  /\ results' = PrepareResults(tickets, fSims, fTop)
  /\ seenTickets' = tickets
  /\ fpc' = "idle" /\ fOutcome' = "returned"
  /\ UNCHANGED <<backend, callVars, w2Vars, recVars, storeVars, writerVars, outcomeVars, fQuery, fK, fSims, fTop,
                 seenEmbeddings, ghostVars, azVars>>

(***************************************************************************)
(* AzureSearchIndexer.index_tickets on the remote store.                   *)
(***************************************************************************)
batch_size == 100

\* the completion collaborator's answer for the intent of a ticket
CompletionText(ticket) == QueryText(ticket.title)

\* _generate_intent_summary: the answer, or the fallback when the call fails
GenerateIntentSummary(ticket, answered) ==
  IF answered THEN CompletionText(ticket)
  ELSE << Line("Issue about: ", "", <<ticket.title>>) >>

\* variant: a failed call leaves the summary without a value
GenerateActionsSummary_NoFallback(ticket, outcome) ==
  IF outcome = "no_client" THEN QueryText(None)
  ELSE IF ticket.comments = <<>> THEN QueryText("No activities recorded yet.")
  ELSE IF outcome = "answered" THEN << Line("Actions: ", "", <<ticket.title>>) >>
  ELSE QueryText(None)

\* _generate_actions_summary; outcome says whether the completion client
\* could not be built ("no_client"), the call "failed" or it "answered"
GenerateActionsSummary(ticket, outcome) ==
  IF outcome = "no_client" THEN QueryText("Activities not summarized.")
  ELSE IF ticket.comments = <<>> THEN QueryText("No activities recorded yet.")
  ELSE IF outcome = "answered" THEN << Line("Actions: ", "", <<ticket.title>>) >>
  ELSE QueryText("Activities not summarized.")

\* _generate_solution_summary
GenerateSolutionSummary(ticket, outcome) ==
  IF ticket.state # "closed" THEN QueryText("Issue is still open.")
  ELSE IF outcome = "no_client" THEN QueryText("Resolution not summarized.")
  ELSE IF ticket.comments = <<>> THEN QueryText("Issue closed without resolution comments.")
  ELSE IF outcome = "answered" THEN << Line("Solution: ", "", <<ticket.title>>) >>
  ELSE QueryText("Resolution not summarized.")

\* variant: the resolution line is built from all comments
AzCreateTicketText_AllComments(ticket) ==
  LET parts == << Line("Title: ", "", <<ticket.title>>),
                  Line("Body: ", "", <<ticket.body>>),
                  Line("Labels: ", ", ", ticket.labels),
                  Line("Category: ", "", <<Get(ticket, "category", "general")>>) >>
      withLevel == IF Truthy(Get(ticket, "support_level", None))
                   THEN Append(parts, Line("Support Level: ", "", <<ticket.support_level>>))
                   ELSE parts
  IN IF ticket.state = "closed" /\ Get(ticket, "comments", <<>>) # <<>>
     THEN Append(withLevel, Line("Resolution: ", " ", ticket.comments))
     ELSE withLevel

\* AzureSearchIndexer._create_ticket_text
AzCreateTicketText(ticket) ==
  LET parts == << Line("Title: ", "", <<ticket.title>>),
                  Line("Body: ", "", <<ticket.body>>),
                  Line("Labels: ", ", ", ticket.labels),
                  Line("Category: ", "", <<Get(ticket, "category", "general")>>) >>
      withLevel == IF Truthy(Get(ticket, "support_level", None))
                   THEN Append(parts, Line("Support Level: ", "", <<ticket.support_level>>))
                   ELSE parts
  IN IF ticket.state = "closed" /\ Get(ticket, "comments", <<>>) # <<>>
     THEN Append(withLevel, Line("Resolution: ", " ", LastN(ticket.comments, 3)))
     ELSE withLevel

\* the document of lines 233-259
Document(ticket, content, summary, intent, actions, solution) ==
  [id |-> ticket.number, title |-> ticket.title, state |-> ticket.state,
   category |-> ticket.category, support_level |-> ticket.support_level,
   github_intent_summary |-> summary, github_intent_vector |-> intent,
   github_actions_summary |-> actions, github_solution_summary |-> solution,
   content_vector |-> content]

\* upload_documents of batch[i..]: each document replaces the stored one
\* with its key, the last one of a key in the batch staying
Upload(docs, batch, i) ==
  LET n == Len(batch)
      last == {j \in i..n : \A l \in (j + 1)..n : batch[l].id # batch[j].id}
  IN {d \in docs : \A j \in i..n : batch[j].id # d.id} \cup {batch[j] : j \in last}

\* lines 192-194: nothing to index
AzIndexTicketsEmpty ==
  /\ backend = "azure" /\ rpc = "idle"
  /\ lastResult' = "returned" /\ fault' = "none"
  /\ insertedPos' = {} /\ embeddedPos' = {} /\ failedAt' = 0
  /\ UNCHANGED <<backend, callVars, w2Vars, recVars, storeVars, writerVars, readerVars,
                 preTickets, preEmbeddings, snapshot, azVars>>

\* variant: the index is not created before the loop
AzIndexTicketsBegin_NoCreate(batch) ==
  /\ backend = "azure" /\ rpc = "idle"
  /\ batch # <<>>
  /\ created' = FALSE
  /\ rpc' = "content" /\ rBatch' = batch /\ rI' = 1 /\ rContent' = NoVec
  /\ documents' = <<>> /\ rOff' = 0 /\ sent' = <<>>
  /\ lastResult' = "running" /\ fault' = "none"
  /\ insertedPos' = {} /\ embeddedPos' = {} /\ failedAt' = 0
  /\ UNCHANGED <<backend, callVars, w2Vars, recVars, storeVars, writerVars, readerVars,
                 preTickets, preEmbeddings, snapshot, indexExists, remoteDocs,
                 completionClient>>

\* lines 196-204: the index is created when index_exists() says it is
\* missing (it also says so when get_index fails), then the loop is entered
AzIndexTicketsBegin(batch) ==
  /\ backend = "azure" /\ rpc = "idle"
  /\ batch # <<>>
  /\ indexExists' = TRUE /\ created' = ~indexExists
  /\ rpc' = "content" /\ rBatch' = batch /\ rI' = 1 /\ rContent' = NoVec
  /\ documents' = <<>> /\ rOff' = 0 /\ sent' = <<>>
  /\ lastResult' = "running" /\ fault' = "none"
  /\ insertedPos' = {} /\ embeddedPos' = {} /\ failedAt' = 0
  /\ UNCHANGED <<backend, callVars, w2Vars, recVars, storeVars, writerVars, readerVars,
                 preTickets, preEmbeddings, snapshot, remoteDocs, completionClient>>

\* create_index raises (lines 173-175)
AzCreateIndexRaise(batch) ==
  /\ backend = "azure" /\ rpc = "idle"
  /\ batch # <<>>
  /\ lastResult' = "raised" /\ fault' = "create"
  /\ insertedPos' = {} /\ embeddedPos' = {} /\ failedAt' = 0
  /\ UNCHANGED <<backend, callVars, w2Vars, recVars, storeVars, writerVars, readerVars,
                 preTickets, preEmbeddings, snapshot, azVars>>

\* lines 208-211
AzContentEmbedding ==
  /\ rpc = "content"
  /\ rContent' = GenerateEmbedding(AzCreateTicketText(rBatch[rI]))
  /\ rpc' = "intent"
  /\ UNCHANGED <<backend, callVars, w2Vars, recVars, storeVars, writerVars, outcomeVars, readerVars, ghostVars,
                 rBatch, rI, documents, rOff, indexExists, remoteDocs,
                 sent, created, completionClient>>

\* variant: the documents prepared before the failure are uploaded
AzEmbeddingRaise_UploadsPrepared ==
  /\ rpc \in {"content", "intent"}
  /\ \E built \in BOOLEAN :
       completionClient' = (completionClient \/ (built /\ rpc = "intent"))
  /\ failedAt' = rI
  /\ remoteDocs' = Upload(remoteDocs, documents, 1)
  /\ sent' = IF documents = <<>> THEN sent ELSE Append(sent, documents)
  /\ rpc' = "idle" /\ rBatch' = <<>> /\ rI' = 0 /\ rContent' = NoVec /\ documents' = <<>>
  /\ lastResult' = "raised" /\ fault' = "embedding"
  /\ UNCHANGED <<backend, callVars, w2Vars, recVars, storeVars, writerVars, readerVars,
                 preTickets, preEmbeddings, snapshot, insertedPos, embeddedPos,
                 rOff, indexExists, created>>

\* an embedding call of lines 211 or 215 raises; at line 215 the intent
\* summary of line 214 may already have built the completion client
AzEmbeddingRaise ==
  /\ rpc \in {"content", "intent"}
  /\ \E built \in BOOLEAN :
       completionClient' = (completionClient \/ (built /\ rpc = "intent"))
  /\ failedAt' = rI
  /\ rpc' = "idle" /\ rBatch' = <<>> /\ rI' = 0 /\ rContent' = NoVec /\ documents' = <<>>
  /\ lastResult' = "raised" /\ fault' = "embedding"
  /\ UNCHANGED <<backend, callVars, w2Vars, recVars, storeVars, writerVars, readerVars,
                 preTickets, preEmbeddings, snapshot, insertedPos, embeddedPos,
                 rOff, indexExists, remoteDocs, sent, created>>

\* lines 214-261: the intent summary and its embedding, the actions and
\* solution summaries, the document.  Each summary call has its own outcome;
\* the completion client is built by the first call that manages to and is
\* kept (lines 75-103), and the solution summary of an open ticket does not
\* ask for it (lines 557-558)
AzPrepareDocument ==
  /\ rpc = "intent"
  /\ \E o1, o2, o3 \in {"answered", "failed", "no_client"} :
       LET t == rBatch[rI]
           c1 == completionClient \/ o1 # "no_client"
           c2 == c1 \/ o2 # "no_client"
           c3 == c2 \/ (t.state = "closed" /\ o3 # "no_client")
           summary == GenerateIntentSummary(t, o1 = "answered")
       IN /\ completionClient => o1 # "no_client"
          /\ c1 => o2 # "no_client"
          /\ c2 => o3 # "no_client"
          /\ documents' = Append(documents,
               Document(t, rContent, summary, GenerateEmbedding(summary),
                        GenerateActionsSummary(t, o2), GenerateSolutionSummary(t, o3)))
          /\ completionClient' = c3
  /\ embeddedPos' = embeddedPos \cup {rI}
  /\ rI' = rI + 1 /\ rContent' = NoVec
  /\ rpc' = IF rI = Len(rBatch) THEN "upload" ELSE "content"
  /\ UNCHANGED <<backend, callVars, w2Vars, recVars, storeVars, writerVars, outcomeVars, readerVars,
                 preTickets, preEmbeddings, snapshot, insertedPos, failedAt,
                 rBatch, rOff, indexExists, remoteDocs, sent, created>>

\* lines 268-272: one batch is uploaded
AzUploadBatch ==
  /\ rpc = "upload"
  /\ LET last == Min(rOff + batch_size, Len(documents))
     IN /\ remoteDocs' = Upload(remoteDocs, SubSeq(documents, rOff + 1, last), 1)
        /\ sent' = Append(sent, SubSeq(documents, rOff + 1, last))
        /\ insertedPos' = insertedPos \cup ((rOff + 1)..last)
        /\ IF last = Len(documents)
           THEN /\ rpc' = "idle" /\ rBatch' = <<>> /\ rI' = 0 /\ documents' = <<>>
                /\ rOff' = 0 /\ lastResult' = "returned"
           ELSE /\ rOff' = rOff + batch_size
                /\ UNCHANGED <<rpc, rBatch, rI, documents, lastResult>>
  /\ UNCHANGED <<backend, callVars, w2Vars, recVars, storeVars, writerVars, fault, readerVars,
                 preTickets, preEmbeddings, snapshot, embeddedPos, failedAt,
                 rContent, indexExists, created, completionClient>>

\* variant: the failure is logged and the loop goes on to the next batch
AzUploadRaise_Continue ==
  /\ rpc = "upload"
  /\ fault' = "upload"
  /\ IF rOff + batch_size >= Len(documents)
     THEN /\ rpc' = "idle" /\ rBatch' = <<>> /\ rI' = 0 /\ documents' = <<>>
          /\ rOff' = 0 /\ lastResult' = "returned"
     ELSE /\ rOff' = rOff + batch_size
          /\ UNCHANGED <<rpc, rBatch, rI, documents, lastResult>>
  /\ UNCHANGED <<backend, callVars, w2Vars, recVars, storeVars, writerVars, readerVars, ghostVars,
                 rContent, indexExists, remoteDocs, sent, created, completionClient>>

\* lines 273-275: the upload raises
AzUploadRaise ==
  /\ rpc = "upload"
  /\ rpc' = "idle" /\ rBatch' = <<>> /\ rI' = 0 /\ documents' = <<>> /\ rOff' = 0
  /\ lastResult' = "raised" /\ fault' = "upload"
  /\ UNCHANGED <<backend, callVars, w2Vars, recVars, storeVars, writerVars, readerVars, ghostVars,
                 rContent, indexExists, remoteDocs, sent, created, completionClient>>

(***************************************************************************)
(* Resolution recommendations: ResolutionAgent (resolution_agent.py) and   *)
(* ResolutionRecommender (resolution_recommender.py).  A similarity score  *)
(* is an integer number of hundredths; an average is the pair of a sum of  *)
(* hundredths and a count.                                                 *)
(***************************************************************************)
\* a search result handed to recommend_resolution
Neighbour(score) ==
  [number |-> 1, title |-> "vpn", body |-> "", url |-> "u", state |-> "open",
   category |-> "configuration", similarity_score |-> score]

NeighbourLists ==
  UNION {[1..n -> {Neighbour(x) : x \in {59, 60, 79, 80, 90}}] : n \in 0..MaxNeighbours}

\* variant: the thresholds are exclusive
CalculateConfidence_Exclusive(avg, n) ==
  IF avg.num > 80 * avg.den /\ n >= 3 THEN "high"
  ELSE IF avg.num > 60 * avg.den /\ n >= 2 THEN "medium"
  ELSE "low"

\* ResolutionAgent._calculate_confidence
CalculateConfidence(avg, n) ==
  IF avg.num >= 80 * avg.den /\ n >= 3 THEN "high"
  ELSE IF avg.num >= 60 * avg.den /\ n >= 2 THEN "medium"
  ELSE "low"

\* resolution_recommender.ResolutionRecommender._calculate_confidence
RecommenderCalculateConfidence(avg, n) ==
  IF avg.num >= 80 * avg.den /\ n >= 3 THEN "high"
  ELSE IF avg.num >= 60 * avg.den /\ n >= 2 THEN "medium"
  ELSE "low"

\* sum(t['similarity_score'] for t in similar_tickets[i..])
RECURSIVE SumScores(_, _)
SumScores(nb, i) ==
  IF i > Len(nb) THEN 0 ELSE nb[i].similarity_score + SumScores(nb, i + 1)

\* variant: the score of the best neighbour is reported as the average
AverageSimilarity_First(nb) == [num |-> nb[1].similarity_score, den |-> 1]

\* avg_similarity of a non-empty list
AverageSimilarity(nb) == [num |-> SumScores(nb, 1), den |-> Len(nb)]

\* the dictionary returned for a non-empty list, by either class
Recommendation(text, nb, i) ==
  [recommendation |-> text,
   confidence |-> IF i = "agent"
                    THEN CalculateConfidence(AverageSimilarity(nb), Len(nb))
                    ELSE RecommenderCalculateConfidence(AverageSimilarity(nb), Len(nb)),
   average_similarity |-> AverageSimilarity(nb),
   similar_tickets_count |-> Len(nb),
   similar_tickets |->
     [k \in 1..Len(nb) |->
        [number |-> nb[k].number, title |-> nb[k].title, url |-> nb[k].url,
         similarity_score |-> nb[k].similarity_score, state |-> nb[k].state,
         category |-> nb[k].category]]]

\* a recommender object is constructed: ResolutionAgent leaves its agent
\* unbuilt, resolution_recommender.ResolutionRecommender builds its client
NewRecommender(i) ==
  /\ qpc = "idle" /\ impl # i
  /\ impl' = i /\ agentBuilt' = (i = "chat")
  /\ neighbours' = <<>> /\ completionCalls' = 0
  /\ recResult' = [recommendation |-> None]
  /\ recOutcome' = "none" /\ cliOutcome' = "none"
  /\ UNCHANGED <<backend, callVars, storeVars, writerVars, outcomeVars, readerVars, ghostVars,
                 azVars, w2Vars, qpc, cAvg, cN, gradeAgent, gradeRecommender>>

\* variant: the agent is built and asked before the list is looked at
RecommendEmpty_AsksAgent ==
  /\ qpc = "idle"
  /\ neighbours' = <<>> /\ completionCalls' = 1 /\ agentBuilt' = TRUE
  /\ recResult' =
       [recommendation |->
          "No similar tickets found. This appears to be a new type of issue.",
        confidence |-> "low", similar_tickets |-> <<>>]
  /\ recOutcome' = "returned" /\ cliOutcome' = "none"
  /\ UNCHANGED <<backend, callVars, storeVars, writerVars, outcomeVars, readerVars, ghostVars,
                 azVars, w2Vars, impl, qpc, cAvg, cN, gradeAgent, gradeRecommender>>

\* recommend_resolution(query, []): the early return of both classes
RecommendEmpty ==
  /\ qpc = "idle"
  /\ neighbours' = <<>> /\ completionCalls' = 0
  /\ recResult' =
       [recommendation |->
          "No similar tickets found. This appears to be a new type of issue.",
        confidence |-> "low", similar_tickets |-> <<>>]
  /\ recOutcome' = "returned" /\ cliOutcome' = "none"
  /\ UNCHANGED <<backend, callVars, storeVars, writerVars, outcomeVars, readerVars, ghostVars,
                 azVars, w2Vars, impl, agentBuilt, qpc, cAvg, cN, gradeAgent,
                 gradeRecommender>>

\* recommend_resolution with neighbours: context and prompt are built
RecommendBegin(nb) ==
  /\ qpc = "idle" /\ nb # <<>>
  /\ neighbours' = nb /\ completionCalls' = 0
  /\ recResult' = [recommendation |-> None]
  /\ recOutcome' = "none" /\ cliOutcome' = "none"
  /\ qpc' = IF impl = "agent" THEN "ensure" ELSE "run"
  /\ UNCHANGED <<backend, callVars, storeVars, writerVars, outcomeVars, readerVars, ghostVars,
                 azVars, w2Vars, impl, agentBuilt, cAvg, cN, gradeAgent,
                 gradeRecommender>>

\* ResolutionAgent._ensure_agent
EnsureAgent ==
  /\ qpc = "ensure"
  /\ agentBuilt' = TRUE
  /\ qpc' = "run"
  /\ UNCHANGED <<backend, callVars, storeVars, writerVars, outcomeVars, readerVars, ghostVars,
                 azVars, w2Vars, impl, neighbours, completionCalls, recResult,
                 recOutcome, cliOutcome, cAvg, cN, gradeAgent, gradeRecommender>>

\* building the agent, or the completion call, raises: nothing catches it
RecommendRaise ==
  /\ qpc \in {"ensure", "run"}
  /\ completionCalls' = IF qpc = "run" THEN completionCalls + 1 ELSE completionCalls
  /\ qpc' = "idle" /\ recOutcome' = "raised"
  /\ UNCHANGED <<backend, callVars, storeVars, writerVars, outcomeVars, readerVars, ghostVars,
                 azVars, w2Vars, impl, agentBuilt, neighbours, recResult,
                 cliOutcome, cAvg, cN, gradeAgent, gradeRecommender>>

\* the completion call and the rest of recommend_resolution; the agent may
\* answer without messages
RecommendReturn ==
  /\ qpc = "run"
  /\ completionCalls' = completionCalls + 1
  /\ \E answered \in BOOLEAN :
       recResult' =
         Recommendation(IF impl = "agent" /\ ~answered
                          THEN "Unable to generate recommendation"
                          ELSE "<completion>",
                        neighbours, impl)
  /\ qpc' = "idle" /\ recOutcome' = "returned"
  /\ UNCHANGED <<backend, callVars, storeVars, writerVars, outcomeVars, readerVars, ghostVars,
                 azVars, w2Vars, impl, agentBuilt, neighbours, cliOutcome,
                 cAvg, cN, gradeAgent, gradeRecommender>>

\* main.py recommend, lines 159-174: the command prints the result
CliDisplay ==
  /\ impl = "agent" /\ recOutcome = "returned" /\ cliOutcome = "none"
  /\ cliOutcome' =
       IF {"confidence", "similar_tickets_count", "recommendation", "similar_tickets"}
            \subseteq DOMAIN recResult
       THEN "completed" ELSE "error"
  /\ UNCHANGED <<backend, callVars, storeVars, writerVars, outcomeVars, readerVars, ghostVars,
                 azVars, w2Vars, impl, agentBuilt, qpc, neighbours, completionCalls,
                 recResult, recOutcome, cAvg, cN, gradeAgent, gradeRecommender>>

\* _calculate_confidence called directly on both classes, as the tests do
ApplyCalculateConfidence ==
  \E a \in 0..100, n \in 0..(MaxNeighbours + 2) :
    /\ cAvg' = [num |-> a, den |-> 1] /\ cN' = n
    /\ gradeAgent' = CalculateConfidence(cAvg', n)
    /\ gradeRecommender' = RecommenderCalculateConfidence(cAvg', n)
    /\ UNCHANGED <<backend, callVars, storeVars, writerVars, outcomeVars, readerVars, ghostVars,
                   azVars, w2Vars, impl, agentBuilt, qpc, neighbours, completionCalls,
                   recResult, recOutcome, cliOutcome>>

(***************************************************************************)
(* AzureSearchIndexer._calculate_complexity.  The body is given by its     *)
(* length, the comments by their number, a timestamp by what parsing it    *)
(* yields: nothing ("none", "empty"), an error ("malformed") or a time in  *)
(* hours ("iso").                                                          *)
(***************************************************************************)
Stamp(kind, hours) == [kind |-> kind, hours |-> hours]

\* variant: the score is not capped
CalculateComplexity_Uncapped(t) ==
  LET b == IF t.body_len > 2000 THEN 3 ELSE IF t.body_len > 1000 THEN 2
           ELSE IF t.body_len > 500 THEN 1 ELSE 0
      c == IF t.comment_count > 20 THEN 3 ELSE IF t.comment_count > 10 THEN 2
           ELSE IF t.comment_count > 5 THEN 1 ELSE 0
      l == IF t.support_level = "L3" THEN 2 ELSE IF t.support_level = "L2" THEN 1 ELSE 0
      days == (t.closed_at.hours - t.created_at.hours) \div 24
      a == IF /\ t.state = "closed" /\ t.closed_at.kind \in {"malformed", "iso"}
              /\ t.created_at.kind = "iso" /\ t.closed_at.kind = "iso"
           THEN IF days > 30 THEN 2 ELSE IF days > 14 THEN 1 ELSE 0
           ELSE 0
  IN 1 + b + c + l + a

\* lines 606-649; a timestamp that does not parse raises inside the try of
\* lines 637-646 and adds nothing
CalculateComplexity(t) ==
  LET b == IF t.body_len > 2000 THEN 3 ELSE IF t.body_len > 1000 THEN 2
           ELSE IF t.body_len > 500 THEN 1 ELSE 0
      c == IF t.comment_count > 20 THEN 3 ELSE IF t.comment_count > 10 THEN 2
           ELSE IF t.comment_count > 5 THEN 1 ELSE 0
      l == IF t.support_level = "L3" THEN 2 ELSE IF t.support_level = "L2" THEN 1 ELSE 0
      days == (t.closed_at.hours - t.created_at.hours) \div 24
      a == IF /\ t.state = "closed" /\ t.closed_at.kind \in {"malformed", "iso"}
              /\ t.created_at.kind = "iso" /\ t.closed_at.kind = "iso"
           THEN IF days > 30 THEN 2 ELSE IF days > 14 THEN 1 ELSE 0
           ELSE 0
  IN Min(1 + b + c + l + a, 10)

\* _calculate_complexity called on the ticket
ApplyCalculateComplexity ==
  /\ callFn = "none"
  /\ callFn' = "_calculate_complexity"
  /\ callRet' = CalculateComplexity(callArg)
  /\ UNCHANGED <<backend, callArg, storeVars, writerVars, outcomeVars, readerVars, ghostVars,
                 azVars, w2Vars, recVars>>

\* get_stats called on a store holding the entries callArg
ApplyGetStats ==
  /\ callFn = "none"
  /\ callFn' = "get_stats"
  /\ callRet' = IF backend = "local" THEN GetStats(callArg) ELSE AzGetStats(callArg)
  /\ UNCHANGED <<backend, callArg, storeVars, writerVars, outcomeVars, readerVars, ghostVars,
                 azVars, w2Vars, recVars>>

\* _create_ticket_text of both stores called on the ticket callArg
ApplyCreateTicketText ==
  /\ callFn = "none"
  /\ callFn' = "_create_ticket_text"
  /\ callRet' = [local |-> CreateTicketText(callArg), remote |-> AzCreateTicketText(callArg)]
  /\ UNCHANGED <<backend, callArg, storeVars, writerVars, outcomeVars, readerVars, ghostVars,
                 azVars, w2Vars, recVars>>

(***************************************************************************)
(* GitHubIssueFetcher.fetch_issues.  source is what repo.get_issues yields *)
(* for the state and labels asked; an issue is given by its number,        *)
(* whether it is a pull request, and the category derived for it.  A call  *)
(* is given by the names of its keyword arguments.                         *)
(***************************************************************************)
FetchIssues(source, names) ==
  IF names \subseteq {"state", "labels"}
  THEN [raised |-> "none", tickets |-> SelectSeq(source, LAMBDA i : ~i.pull_request)]
  ELSE [raised |-> "TypeError", tickets |-> <<>>]

\* fetch_issues called with the keyword arguments of callArg
ApplyFetchIssues ==
  /\ callFn = "none"
  /\ callFn' = "fetch_issues"
  /\ callRet' = FetchIssues(callArg.source, callArg.names)
  /\ UNCHANGED <<backend, callArg, storeVars, writerVars, outcomeVars, readerVars, ghostVars,
                 azVars, w2Vars, recVars>>

(***************************************************************************)
(* ResolutionAgent._build_context over the results of a search.  A body    *)
(* or comment is given by a name and its length in characters; a part of   *)
(* the context is the sequence of its lines.                               *)
(***************************************************************************)
\* s[:n]
Cut(s, n) == [s EXCEPT !.len = IF s.len < n THEN s.len ELSE n]

\* variant: the comments of the indexed ticket come back with the result
AzSearchResult_WithComments(t, score) ==
  [number |-> t.number, title |-> t.title, body |-> t.body, state |-> t.state,
   support_level |-> t.support_level, category |-> t.category,
   similarity_score |-> score, comments |-> t.comments]

\* azure_search_indexer.py lines 328-348: the ticket built from the
\* document indexed for t
AzSearchResult(t, score) ==
  [number |-> t.number, title |-> t.title, body |-> t.body, state |-> t.state,
   support_level |-> t.support_level, category |-> t.category,
   similarity_score |-> score, comments |-> <<>>]

BuildContext(similar_tickets) ==
  [i \in 1..Len(similar_tickets) |->
     LET ticket == similar_tickets[i]
         head == << Line("--- Similar Ticket #", "", <<i>>),
                    Line("Similarity: ", "", <<ticket.similarity_score>>),
                    Line("Title: ", "", <<ticket.title>>),
                    Line("Body: ", "", <<Cut(ticket.body, 500)>>),
                    Line("State: ", "", <<ticket.state>>),
                    Line("Category: ", "", <<Get(ticket, "category", "general")>>),
                    Line("Support Level: ", "",
                         <<Get(ticket, "support_level", "unspecified")>>) >>
         resolution_comments == LastN(Get(ticket, "comments", <<>>), 2)
     IN IF ticket.state = "closed" /\ resolution_comments # <<>>
        THEN head \o << Line("Resolution comments:", "", <<>>) >>
                  \o [j \in 1..Len(resolution_comments) |->
                        Line("- ", "", <<Cut(resolution_comments[j], 300)>>)]
        ELSE head]

\* a search on the store of callArg.source over the indexed tickets
\* callArg.stored, and _build_context on its results
ApplyBuildContext ==
  /\ callFn = "none"
  /\ callFn' = "_build_context"
  /\ LET similar_tickets ==
           [i \in 1..Len(callArg.stored) |->
              IF callArg.source = "local"
              THEN [similarity_score |-> 80] @@ callArg.stored[i]
              ELSE AzSearchResult(callArg.stored[i], 80)]
     IN callRet' = [similar_tickets |-> similar_tickets,
                    context |-> BuildContext(similar_tickets)]
  /\ UNCHANGED <<backend, callArg, storeVars, writerVars, outcomeVars, readerVars, ghostVars,
                 azVars, w2Vars, recVars>>

(***************************************************************************)
(* Specifications.                                                         *)
(***************************************************************************)
IndexTickets == \E b \in Batches : fpc = "idle" /\ IndexTicketsBegin(b)

AzIndexTickets == \E b \in Batches : AzIndexTicketsBegin(b)

AzIndexTicketsCreateRaise == \E b \in Batches : AzCreateIndexRaise(b)

\* indexing and persistence, one call after the other, on either backend
Next ==
  \/ IndexTickets
  \/ EmbedTicket
  \/ EmbedTicketRaise
  \/ StoreTicket
  \/ StoreEmbedding
  \/ SaveIndexOpen
  \/ SaveIndexOpenRaise
  \/ SaveIndexDump
  \/ SaveIndexDumpRaise
  \/ Construct
  \/ AzIndexTicketsEmpty
  \/ AzIndexTickets
  \/ AzIndexTicketsCreateRaise
  \/ AzContentEmbedding
  \/ AzEmbeddingRaise
  \/ AzPrepareDocument
  \/ AzUploadBatch
  \/ AzUploadRaise

Spec == Init /\ [][Next]_vars

\* the stores index_tickets builds: each ticket paired with its embedding
EmbeddingsOf(tk) == [i \in 1..Len(tk) |-> GenerateEmbedding(CreateTicketText(tk[i]))]

TicketSeqs == UNION {[1..n -> TicketPool] : n \in 0..MaxStore}

PersistedFiles == {File(JsonDump(tk, EmbeddingsOf(tk))) : tk \in TicketSeqs}

FindSimilarTickets == \E q \in Queries, k \in 1..MaxK : pc = "idle" /\ FindBegin(q, k)

FindSimilarTicketsEmpty == \E q \in Queries, k \in 1..MaxK : pc = "idle" /\ FindEmpty(q, k)

\* searches on a store loaded from a persisted index
InitSearch == \E d \in PersistedFiles : Started("local", d) /\ callArg = <<>> /\ indexExists = FALSE

NextSearch ==
  \/ FindSimilarTickets
  \/ FindSimilarTicketsEmpty
  \/ FindEmbedRaise
  \/ FindRank
  \/ FindCollect

SpecSearch == InitSearch /\ [][NextSearch]_vars

\* a search running while index_tickets runs on the same store; file
\* writes succeed
ConcIndexTickets == \E b \in Batches : IndexTicketsBegin(b)

ConcFindSimilarTickets == \E q \in Queries, k \in 1..MaxK : FindBegin(q, k)

ConcFindSimilarTicketsEmpty == \E q \in Queries, k \in 1..MaxK : FindEmpty(q, k)

InitConc == Started("local", NoFile) /\ callArg = <<>> /\ indexExists = FALSE

NextConc ==
  \/ ConcIndexTickets
  \/ EmbedTicket
  \/ EmbedTicketRaise
  \/ StoreTicket
  \/ StoreEmbedding
  \/ SaveIndexOpen
  \/ SaveIndexDump
  \/ ConcFindSimilarTickets
  \/ ConcFindSimilarTicketsEmpty
  \/ FindEmbedRaise
  \/ FindRank
  \/ FindRankRaise
  \/ FindCollect

SpecConc == InitConc /\ [][NextConc]_vars

\* two index_tickets calls running on the same store; embedding calls and
\* file writes succeed
OtherIndexTickets == \E b \in Batches : fpc = "idle" /\ OtherIndexTicketsBegin(b)

InitWriters == Started("local", NoFile) /\ callArg = <<>> /\ indexExists = FALSE

NextWriters ==
  \/ IndexTickets
  \/ EmbedTicket
  \/ StoreTicket
  \/ StoreEmbedding
  \/ SaveIndexOpen
  \/ SaveIndexDump
  \/ OtherIndexTickets
  \/ OtherEmbedTicket
  \/ OtherStoreTicket
  \/ OtherStoreEmbedding
  \/ OtherSaveIndexOpen
  \/ OtherSaveIndexDump

SpecWriters == InitWriters /\ [][NextWriters]_vars

\* index_tickets on the remote store with ticket lists around the upload
\* batch size; embedding and completion calls succeed
BulkBatches ==
  {[i \in 1..n |-> [TicketA EXCEPT !.number = i]] :
     n \in {1, batch_size, batch_size + 1, 2 * batch_size + 1}}

BulkIndexTickets == \E b \in BulkBatches : AzIndexTicketsBegin(b)

InitBulk == Started("azure", NoFile) /\ callArg = <<>> /\ indexExists = FALSE

NextBulk ==
  \/ BulkIndexTickets
  \/ AzContentEmbedding
  \/ /\ AzPrepareDocument
     /\ documents'[rI].github_intent_summary = CompletionText(rBatch[rI])
     /\ completionClient'
  \/ AzUploadBatch
  \/ AzUploadRaise

SpecBulk == InitBulk /\ [][NextBulk]_vars

\* index_tickets on the local store with an embedding collaborator whose
\* vectors are not all of one length; file writes succeed
NextDims ==
  \/ IndexTickets
  \/ EmbedTicket
  \/ EmbedTicketResized
  \/ StoreTicket
  \/ StoreEmbedding
  \/ SaveIndexOpen
  \/ SaveIndexDump

SpecDims == InitConc /\ [][NextDims]_vars

\* searches with any query text, the empty one included
SearchAnyQuery ==
  \E q \in Queries \cup {""}, k \in 1..MaxK :
    pc = "idle" /\ (FindBegin(q, k) \/ FindEmpty(q, k))

NextQuery ==
  \/ SearchAnyQuery
  \/ FindEmbedRaise
  \/ FindRank
  \/ FindCollect

SpecQuery == InitSearch /\ [][NextQuery]_vars

\* recommendations on lists of neighbours, with either class
Recommend == \E nb \in NeighbourLists : RecommendBegin(nb)

NextRecommend ==
  \/ \E i \in {"agent", "chat"} : NewRecommender(i)
  \/ RecommendEmpty
  \/ Recommend
  \/ EnsureAgent
  \/ RecommendRaise
  \/ RecommendReturn
  \/ CliDisplay

SpecRecommend == InitConc /\ [][NextRecommend]_vars

\* direct calls of _calculate_confidence
SpecConfidence == InitConc /\ [][ApplyCalculateConfidence]_vars

\* one call of _calculate_complexity on a ticket of any size, level and age
InitComplexity ==
  /\ Started("azure", NoFile) /\ indexExists = TRUE
  /\ \E bl \in {0, 500, 501, 1000, 1001, 2000, 2001},
        cc \in {0, 5, 6, 10, 11, 20, 21},
        sl \in {None, "", "L1", "L2", "L3"},
        st \in {"open", "closed"},
        cr \in {Stamp("iso", 0), Stamp("malformed", 0)},
        cl \in {Stamp("none", 0), Stamp("empty", 0), Stamp("malformed", 0)}
               \cup {Stamp("iso", h) : h \in {-24, 359, 360, 743, 744}} :
       callArg = [body_len |-> bl, comment_count |-> cc, support_level |-> sl,
                  state |-> st, created_at |-> cr, closed_at |-> cl]

SpecComplexity == InitComplexity /\ [][ApplyCalculateComplexity]_vars

\* the fields of an entry that get_stats reads; the last entry has no
\* support_level key
StatEntries ==
  {[state |-> st, category |-> c, support_level |-> l] :
     st \in {"open", "closed"},
     c \in {"documentation", "configuration", "operational"},
     l \in {None, "", "L1"}}
  \cup {[state |-> "open", category |-> "documentation"]}

\* one call of get_stats on a store of either kind: up to MaxStore entries,
\* the three categories of the scenario, or one entry more than a search returns
InitStats ==
  /\ \E b \in {"local", "azure"} : Started(b, NoFile) /\ indexExists = (b = "azure")
  /\ callArg \in UNION {[1..n -> StatEntries] : n \in 0..MaxStore}
       \cup {[i \in 1..3 |-> [state |-> "open", support_level |-> "L1", category |->
               <<"documentation", "configuration", "operational">>[i]]],
             [i \in 1..(stats_top + 1) |-> [state |-> "open", category |-> "general",
                                       support_level |-> "L1"]]}

SpecStats == InitStats /\ [][ApplyGetStats]_vars

\* one call of _create_ticket_text on a ticket as the fetcher builds it
InitEmbedText ==
  /\ Started("local", NoFile) /\ indexExists = FALSE
  /\ \E b \in {"", "full"},
        ls \in {<<>>, <<"bug">>, <<"bug", "net">>},
        c \in {"configuration", "general"},
        sl \in {None, "", "L2"},
        st \in {"open", "closed"},
        cs \in {<<>>, <<"c1">>, <<"c1", "c2", "c3">>, <<"c1", "c2", "c3", "c4">>} :
       callArg = [number |-> 1, title |-> "vpn", body |-> b, labels |-> ls, state |-> st,
                  category |-> c, support_level |-> sl, comments |-> cs]

SpecEmbedText == InitEmbedText /\ [][ApplyCreateTicketText]_vars

\* one call of fetch_issues: as example_usage.py calls it, as the index
\* command calls it (with or without --issue-types), as the test calls it
InitFetch ==
  /\ Started("local", NoFile) /\ indexExists = FALSE
  /\ \E src \in UNION {[1..n -> {[number |-> 1, pull_request |-> FALSE, category |-> "documentation"],
                                   [number |-> 2, pull_request |-> FALSE, category |-> "configuration"],
                                   [number |-> 3, pull_request |-> TRUE, category |-> "documentation"]}]
                         : n \in 0..3},
        call \in {[names |-> {"state"}, issue_types |-> <<>>],
                  [names |-> {"state", "labels", "issue_ids", "issue_types"}, issue_types |-> <<>>],
                  [names |-> {"state", "labels", "issue_ids", "issue_types"},
                   issue_types |-> <<"documentation">>],
                  [names |-> {"issue_types"}, issue_types |-> <<"documentation">>]} :
       callArg = [source |-> src, names |-> call.names, issue_types |-> call.issue_types]

SpecFetch == InitFetch /\ [][ApplyFetchIssues]_vars

\* a store constructed over any JSON object the index path can hold: with
\* or without each of the two keys, the lists of any lengths
InitLoad ==
  \E hasT \in BOOLEAN, hasE \in BOOLEAN, tk \in TicketSeqs,
     em \in UNION {[1..n -> {<<1, 0>>, <<0, 1>>}] : n \in 0..MaxStore} :
    /\ hasT \/ tk = <<>>
    /\ hasE \/ em = <<>>
    /\ Started("local",
               File(<<Tok("{")>>
                    \o (IF hasT THEN <<Tok("tickets"), Tok("[")>>
                                       \o [i \in 1..Len(tk) |-> TicketTok(tk[i])]
                                       \o <<Tok("]")>>
                        ELSE <<>>)
                    \o (IF hasE THEN <<Tok("embeddings"), Tok("[")>>
                                       \o [i \in 1..Len(em) |-> VecTok(em[i])]
                                       \o <<Tok("]")>>
                        ELSE <<>>)
                    \o <<Tok("}")>>))
    /\ callArg = <<>> /\ indexExists = FALSE

\* indexing on the loaded store, and constructing again on what it wrote
NextLoad ==
  \/ IndexTickets
  \/ EmbedTicket
  \/ StoreTicket
  \/ StoreEmbedding
  \/ SaveIndexOpen
  \/ SaveIndexDump
  \/ Construct

SpecLoad == InitLoad /\ [][NextLoad]_vars

\* the tickets a search finds, indexed on the local or the remote store:
\* open or closed, without comments, with one, or with three of 10, 301 and
\* 300 characters
InitContext ==
  /\ Started("local", NoFile) /\ indexExists = FALSE
  /\ \E source \in {"local", "azure"},
        stored \in UNION {[1..n ->
                   {[number |-> 1, title |-> "vpn", body |-> [name |-> "b", len |-> 501],
                     state |-> st, category |-> "general", support_level |-> "L1",
                     comments |-> cs] :
                      st \in {"open", "closed"},
                      cs \in {<<>>, <<[name |-> "c1", len |-> 10]>>,
                              <<[name |-> "c1", len |-> 10], [name |-> "c2", len |-> 301],
                                [name |-> "c3", len |-> 300]>>}}] : n \in 0..MaxK} :
       callArg = [source |-> source, stored |-> stored]

SpecContext == InitContext /\ [][ApplyBuildContext]_vars

(***************************************************************************)
(* Properties.                                                             *)
(***************************************************************************)
LocalIdle == backend = "local" /\ pc = "idle"

\* C1: between index_tickets calls on the local store, also after a call
\* that an embedding failure aborted, tickets and embeddings have the same
\* length and embeddings[i] is the vector generated for tickets[i]; after a
\* call that returned, the store holds the entries it held before plus the
\* whole batch.
C1_PairingInvariant ==
  LocalIdle =>
    /\ Len(tickets) = Len(embeddings)
    /\ \A i \in 1..Len(tickets) :
         embeddings[i] = GenerateEmbedding(CreateTicketText(tickets[i]))
    /\ lastResult = "returned" =>
         /\ Len(tickets) = Len(preTickets) + Len(wBatch)
         /\ Len(embeddings) = Len(preTickets) + Len(wBatch)

C1_Witness ==
  /\ LocalIdle /\ fault = "embedding" /\ failedAt = 2
  /\ Len(tickets) = Len(preTickets) + 1 /\ Len(embeddings) = Len(tickets)

\* C2: a store holds at most one entry per ticket id, on the local store as
\* in the remote index.
C2_OneEntryPerId ==
  /\ LocalIdle =>
       \A i, j \in 1..Len(tickets) : i # j => tickets[i].number # tickets[j].number
  /\ \A d, e \in remoteDocs : d.id = e.id => d = e

\* C3: a search that returns on a non-empty store of n entries returns
\* min(k, n) distinct entries with their similarity to the query, in
\* non-increasing order of similarity, and no entry left out is strictly
\* more similar than one returned.
C3_TopKDescending ==
  (fOutcome = "returned" /\ seenTickets # <<>>) =>
    LET n == Len(seenEmbeddings)
        sim(i) == Similarity(GenerateEmbedding(QueryText(fQuery)), seenEmbeddings[i])
        chosen == {results[r].idx : r \in 1..Len(results)}
    IN /\ Len(results) = Min(fK, n)
       /\ \A r \in 1..Len(results) :
            /\ results[r].idx \in 1..n
            /\ results[r].ticket = seenTickets[results[r].idx]
            /\ results[r].similarity_score = sim(results[r].idx)
       /\ \A r, t \in 1..Len(results) :
            r < t => /\ results[r].idx # results[t].idx
                     /\ ~SimLess(results[r].similarity_score, results[t].similarity_score)
       /\ \A i \in (1..n) \ chosen : \A r \in 1..Len(results) :
            ~SimLess(results[r].similarity_score, sim(i))

C3_Witness ==
  /\ fOutcome = "returned" /\ Len(results) = 1 /\ Len(seenTickets) = 2
  /\ \E i \in 1..2 : SimLess(Similarity(GenerateEmbedding(QueryText(fQuery)),
                                        seenEmbeddings[i]),
                             results[1].similarity_score)

\* C4: of two stored entries equally similar to the query, the one at the
\* lower position is returned before the other, and alone when only one of
\* them is returned.
C4_EarlierWinsTies ==
  (fOutcome = "returned" /\ seenTickets # <<>>) =>
    \A i, j \in 1..Len(fSims) :
      (i < j /\ SimEq(fSims[i], fSims[j])) =>
        \A t \in 1..Len(results) :
          results[t].idx = j => \E r \in 1..(t - 1) : results[r].idx = i

\* C5: when index_tickets on the local store has returned, the index file
\* holds the serialisation of the whole in-memory store.
C5_SnapshotIsWholeStore ==
  (LocalIdle /\ lastResult = "returned") =>
    disk = File(JsonDump(tickets, embeddings))

C5_Witness ==
  /\ LocalIdle /\ lastResult = "returned"
  /\ preTickets # <<>> /\ Len(tickets) > Len(preTickets)

\* C6: when index_tickets on the local store has returned, a TicketIndexer
\* constructed on the index file holds the same tickets and vectors in the
\* same order, and its get_stats() equals that of the original.
C6_RoundTrip ==
  (LocalIdle /\ lastResult = "returned") =>
    /\ ~Constructed(disk).raised
    /\ Constructed(disk).tickets = tickets
    /\ Constructed(disk).embeddings = embeddings
    /\ GetStats(Constructed(disk).tickets) = GetStats(tickets)

C6_Witness ==
  /\ LocalIdle /\ lastResult = "returned" /\ Len(tickets) = 2
  /\ tickets[1].category # tickets[2].category

\* C7: constructing a TicketIndexer over a missing, empty or unparseable
\* index file does not raise and leaves the store empty.
Unreadable(d) == ~d.exists \/ ~JsonLoad(d.content).ok

C7_TolerantLoad ==
  /\ fault # "load"
  /\ (backend = "local" /\ lastResult = "constructed" /\ Unreadable(disk)) =>
       (tickets = <<>> /\ embeddings = <<>>)

C7_Witness ==
  /\ backend = "local" /\ lastResult = "constructed"
  /\ disk.exists /\ Len(disk.content) > 1 /\ ~JsonLoad(disk.content).ok
  /\ snapshot.tickets # <<>>
  /\ tickets = <<>>

\* C8: when writing the snapshot fails, at open or part-way, index_tickets
\* still returns to its caller and a TicketIndexer constructed afterwards
\* holds the last snapshot that was written in full.
C8_SaveFailureContained ==
  (LocalIdle /\ fault \in {"open", "write"}) =>
    /\ lastResult = "returned"
    /\ Constructed(disk).tickets = snapshot.tickets
    /\ Constructed(disk).embeddings = snapshot.embeddings

\* C9: when an embedding call raises for the ticket at position i of the
\* batch, index_tickets raises and no ticket at a position >= i has its
\* vectors generated or is inserted; on the local store the entries added
\* are exactly the tickets before position i.
C9_EmbeddingFailureStopsBatch ==
  fault = "embedding" =>
    /\ lastResult = "raised"
    /\ failedAt >= 1
    /\ \A p \in insertedPos \cup embeddedPos : p < failedAt
    /\ backend = "local" =>
         /\ pc = "idle"
         /\ tickets = preTickets \o SubSeq(wBatch, 1, failedAt - 1)
    /\ backend = "azure" => (rpc = "idle" /\ insertedPos = {})

C9_Witness ==
  /\ fault = "embedding" /\ failedAt = 2
  /\ insertedPos = {1} /\ embeddedPos = {1}

\* C10: a search that returns beside an index_tickets call that has not
\* failed has read a (tickets, embeddings) pair that is the store as it was
\* before that call or the store with the whole batch of that call added.
C10_ReaderSeesWholeBatches ==
  [][(fpc = "collect" /\ fpc' = "idle" /\ fault' = "none") =>
       \/ /\ seenTickets' = preTickets'
          /\ seenEmbeddings' = preEmbeddings'
       \/ /\ seenTickets' = preTickets' \o wBatch'
          /\ seenEmbeddings' = preEmbeddings' \o EmbeddingsOf(wBatch')]_vars

\* C11: when two index_tickets calls run concurrently on the same local
\* store, then once both have finished tickets and embeddings have the same
\* length and every position pairs a ticket with its own vector.
C11_WritersSequenced ==
  (backend = "local" /\ pc = "idle" /\ pc2 = "idle"
     /\ lastResult = "returned" /\ result2 = "returned") =>
    /\ Len(tickets) = Len(embeddings)
    /\ \A i \in 1..Len(tickets) :
         embeddings[i] = GenerateEmbedding(CreateTicketText(tickets[i]))

\* C12: the prepared documents are uploaded in order in consecutive batches
\* of at most batch_size, each document in exactly one batch, and the call
\* returns once all are sent; when the upload of a batch raises, the call
\* ends raising, no further batch is sent and the batches sent before stay
\* in the index.
C12_ChunkedFailFast ==
  /\ [][(rpc = "upload" /\ sent' # sent) =>
         LET k == Len(sent) * batch_size
             b == sent'[Len(sent')]
         IN /\ sent' = Append(sent, b)
            /\ \A j \in 1..Len(sent) : Len(sent[j]) = batch_size
            /\ Len(b) \in 1..batch_size
            /\ b = SubSeq(documents, k + 1, Min(k + batch_size, Len(documents)))
            /\ \A i \in 1..Len(b) : b[i] \in remoteDocs'
            /\ (lastResult' = "returned") <=> (k + Len(b) = Len(documents))
            /\ (lastResult' # "returned") => (rpc' = "upload" /\ documents' = documents)]_vars
  /\ [][(sent' # sent) => (rpc = "upload" \/ (rpc = "idle" /\ sent' = <<>>))]_vars
  /\ [][(rpc = "upload" /\ fault' = "upload") =>
         /\ rpc' = "idle" /\ lastResult' = "raised"
         /\ sent' = sent /\ remoteDocs' = remoteDocs]_vars
  /\ [](backend = "azure" /\ fault = "upload" =>
         /\ rpc = "idle" /\ lastResult = "raised"
         /\ \A j \in 1..Len(sent) : \A i \in 1..Len(sent[j]) : sent[j][i] \in remoteDocs)

\* the third batch of a call failed after two batches were committed
C12_Witness ==
  /\ backend = "azure" /\ rpc = "idle" /\ fault = "upload"
  /\ Len(sent) = 2 /\ Cardinality(remoteDocs) = 2 * batch_size

\* C13: index_tickets on the remote store with a non-empty ticket list and a
\* missing index creates the index before the loop, and a batch is handed to
\* upload_documents only while the index exists; a call that ends without
\* entering the loop (an empty ticket list among them) creates no index and
\* uploads nothing.
C13_CreateBeforeUpload ==
  /\ [][(rpc = "idle" /\ rpc' = "content" /\ ~indexExists) =>
         (indexExists' /\ created' /\ sent' = <<>>)]_vars
  /\ [][(sent' # sent /\ sent' # <<>>) => (indexExists /\ indexExists')]_vars
  /\ [][(backend = "azure" /\ rpc = "idle" /\ rpc' = "idle") =>
         /\ indexExists' = indexExists
         /\ sent' = sent /\ remoteDocs' = remoteDocs]_vars

\* a call that created the index has uploaded its documents and returned
C13_Witness ==
  /\ backend = "azure" /\ created /\ indexExists
  /\ lastResult = "returned" /\ sent # <<>> /\ remoteDocs # {}

C15_DimensionInvariant ==
  LocalIdle =>
    \A i, j \in 1..Len(embeddings) : Len(embeddings[i]) = Len(embeddings[j])

\* C16: find_similar_tickets with an empty query text ends raising before
\* any embedding call, on an empty store as on any other, and never returns
\* a result list.
C16_EmptyQueryRejected ==
  (backend = "local" /\ fK > 0 /\ fQuery = "") =>
    (fpc = "idle" /\ fOutcome = "raised")

\* C17: _calculate_confidence gives "high" exactly when avg >= 0.8 and
\* n >= 3, otherwise "medium" exactly when avg >= 0.6 and n >= 2, otherwise
\* "low", the boundary values falling in the higher tier, and both classes
\* give the same grade for the same input.
C17_ConfidenceGrade ==
  gradeAgent # "none" =>
    LET high == cAvg.num >= 80 * cAvg.den /\ cN >= 3
        medium == ~high /\ cAvg.num >= 60 * cAvg.den /\ cN >= 2
    IN /\ (gradeAgent = "high") <=> high
       /\ (gradeAgent = "medium") <=> medium
       /\ (gradeAgent = "low") <=> (~high /\ ~medium)
       /\ gradeRecommender = gradeAgent

\* the boundary (0.8, 3) was graded "high" by both classes
C17_Witness ==
  /\ cAvg = [num |-> 80, den |-> 1] /\ cN = 3
  /\ gradeAgent = "high" /\ gradeRecommender = "high"

\* C18: recommend_resolution(query, []) returns confidence "low" and an
\* empty similar_tickets list, makes no completion call and neither builds
\* nor asks the agent or chat client.
C18_EmptyNeighbours ==
  /\ []((recOutcome = "returned" /\ neighbours = <<>>) =>
          /\ recResult.confidence = "low"
          /\ recResult.similar_tickets = <<>>
          /\ completionCalls = 0)
  /\ [][(qpc = "idle" /\ recOutcome' = "returned" /\ neighbours' = <<>>) =>
         (agentBuilt' = agentBuilt /\ completionCalls' = 0 /\ qpc' = "idle")]_vars

\* a ResolutionAgent answered for an empty list with its agent still unbuilt
C18_Witness ==
  /\ impl = "agent" /\ recOutcome = "returned" /\ neighbours = <<>>
  /\ ~agentBuilt /\ completionCalls = 0

\* C19: for a non-empty list the result is computed over the neighbours
\* passed in: average_similarity is the mean of their scores,
\* similar_tickets_count their number, similar_tickets one projection per
\* neighbour in the order given, confidence the grade of the two numbers
\* reported; the store is not searched again.
C19_ComputedOverNeighbours ==
  (recOutcome = "returned" /\ neighbours # <<>>) =>
    LET n == Len(neighbours)
        avg == recResult.average_similarity
        high == avg.num >= 80 * avg.den /\ recResult.similar_tickets_count >= 3
        medium == avg.num >= 60 * avg.den /\ recResult.similar_tickets_count >= 2
    IN /\ avg.den > 0 /\ avg.num * n = SumScores(neighbours, 1) * avg.den
       /\ recResult.similar_tickets_count = n
       /\ Len(recResult.similar_tickets) = n
       /\ \A k \in 1..n :
            /\ DOMAIN recResult.similar_tickets[k] =
                 {"number", "title", "url", "similarity_score", "state", "category"}
            /\ \A f \in DOMAIN recResult.similar_tickets[k] :
                 recResult.similar_tickets[k][f] = neighbours[k][f]
       /\ recResult.confidence =
            (IF high THEN "high" ELSE IF medium THEN "medium" ELSE "low")
       /\ fpc = "idle" /\ fOutcome = "none"

\* three neighbours of different scores gave a "medium" recommendation
C19_Witness ==
  /\ recOutcome = "returned" /\ Len(neighbours) = 3
  /\ neighbours[1].similarity_score = 90 /\ neighbours[2].similarity_score = 60
  /\ neighbours[3].similarity_score = 59
  /\ recResult.confidence = "medium"

\* C20: every dictionary recommend_resolution returns, the one for an empty
\* list included, has the five fields recommendation, confidence,
\* average_similarity, similar_tickets_count and similar_tickets, and the
\* recommend command never ends in an error after a result was returned.
C20_FiveFields ==
  /\ recOutcome = "returned" =>
       DOMAIN recResult = {"recommendation", "confidence", "average_similarity",
                           "similar_tickets_count", "similar_tickets"}
  /\ cliOutcome # "error"

\* C21: _calculate_complexity returns min(10, 1 + B + C + L + A): B is
\* 3/2/1/0 for a body longer than 2000/1000/500 characters or not, C is
\* 3/2/1/0 for more than 20/10/5 comments or not, L is 2 for L3 and 1 for
\* L2, A is 2/1 for more than 30/14 whole days between created and closed
\* and counts only for a closed ticket with a closed timestamp, a timestamp
\* that does not parse giving 0; the result is an integer from 1 to 10.
C21_ComplexityScore ==
  callFn = "_calculate_complexity" =>
    LET t == callArg
        B == CASE t.body_len > 2000 -> 3 [] t.body_len \in 1001..2000 -> 2
               [] t.body_len \in 501..1000 -> 1 [] OTHER -> 0
        C == CASE t.comment_count > 20 -> 3 [] t.comment_count \in 11..20 -> 2
               [] t.comment_count \in 6..10 -> 1 [] OTHER -> 0
        L == CASE t.support_level = "L3" -> 2 [] t.support_level = "L2" -> 1
               [] OTHER -> 0
        whole == CHOOSE d \in -2..40 :
                   /\ 24 * d <= t.closed_at.hours - t.created_at.hours
                   /\ t.closed_at.hours - t.created_at.hours < 24 * (d + 1)
        A == IF t.state = "closed" /\ t.closed_at.kind = "iso" /\ t.created_at.kind = "iso"
             THEN (CASE whole > 30 -> 2 [] whole \in 15..30 -> 1 [] OTHER -> 0)
             ELSE 0
        total == 1 + B + C + L + A
    IN /\ callRet = (IF total > 10 THEN 10 ELSE total)
       /\ callRet \in 1..10

\* a long, much discussed L3 ticket closed after 31 days scores 10, not 11
C21_Witness ==
  /\ callFn = "_calculate_complexity" /\ callRet = 10
  /\ callArg.body_len > 2000 /\ callArg.comment_count > 20
  /\ callArg.support_level = "L3" /\ callArg.state = "closed"
  /\ callArg.closed_at = Stamp("iso", 744) /\ callArg.created_at = Stamp("iso", 0)

\* C22: get_stats reports total_tickets equal to the number of stored
\* entries, and the counts of each of by_state, by_category and
\* by_support_level sum to total_tickets; three tickets of categories
\* documentation, configuration and operational give 1/1/1 and total 3, an
\* empty store gives total 0 and empty groupings.
C22_ExactCounts ==
  callFn = "get_stats" =>
    LET RECURSIVE Sum(_, _)
        Sum(f, S) == IF S = {} THEN 0
                     ELSE LET v == CHOOSE x \in S : TRUE IN f[v] + Sum(f, S \ {v})
        Total(f) == Sum(f, DOMAIN f)
    IN /\ callRet.total_tickets = Len(callArg)
       /\ Total(callRet.by_state) = callRet.total_tickets
       /\ Total(callRet.by_category) = callRet.total_tickets
       /\ Total(callRet.by_support_level) = callRet.total_tickets
       /\ \A v \in DOMAIN callRet.by_category :
            callRet.by_category[v] =
              Cardinality({i \in 1..Len(callArg) : callArg[i].category = v})
       /\ callArg = <<>> =>
            /\ DOMAIN callRet.by_state = {} /\ DOMAIN callRet.by_category = {}
            /\ DOMAIN callRet.by_support_level = {}

\* C23: on both backends every ticket whose support level is absent (key
\* missing, None or the empty string) is counted under 'unspecified' in
\* by_support_level, never under a null or empty key.
C23_PlaceholderForAbsentLevel ==
  callFn = "get_stats" =>
    /\ None \notin DOMAIN callRet.by_support_level
    /\ "" \notin DOMAIN callRet.by_support_level
    /\ LET absent == {i \in 1..Len(callArg) :
                        Get(callArg[i], "support_level", None) \in {None, ""}}
       IN absent # {} =>
            /\ "unspecified" \in DOMAIN callRet.by_support_level
            /\ callRet.by_support_level["unspecified"] = Cardinality(absent)

\* C24: the embed text of a ticket has its lines in the fixed order Title,
\* Body, Labels, Category, then Support Level only when the level is set,
\* then Resolution only when the ticket is closed and has comments, built
\* from the bodies of its last 3 comments in chronological order; the local
\* and the remote store build the same text for the same ticket.
C24_EmbedTextFixed ==
  callFn = "_create_ticket_text" =>
    LET t == callArg
        text == callRet.local
        labels == [i \in 1..Len(text) |-> text[i].label]
        level == IF t.support_level \in {"L1", "L2", "L3"} THEN <<"Support Level: ">> ELSE <<>>
        resolved == t.state = "closed" /\ Len(t.comments) > 0
        n == Len(t.comments)
    IN /\ callRet.remote = callRet.local
       /\ labels = <<"Title: ", "Body: ", "Labels: ", "Category: ">> \o level
                     \o (IF resolved THEN <<"Resolution: ">> ELSE <<>>)
       /\ text[1].parts = <<t.title>> /\ text[2].parts = <<t.body>>
       /\ text[3].parts = t.labels /\ text[4].parts = <<t.category>>
       /\ level # <<>> => text[5].parts = <<t.support_level>>
       /\ resolved =>
            text[Len(text)].parts =
              [i \in 1..(IF n < 3 THEN n ELSE 3) |-> t.comments[(IF n < 3 THEN 0 ELSE n - 3) + i]]

\* a closed ticket without level and with four comments: five lines, the
\* resolution from the last three comments
C24_Witness ==
  /\ callFn = "_create_ticket_text"
  /\ callArg.state = "closed" /\ Len(callArg.comments) = 4 /\ callArg.support_level = None
  /\ Len(callRet.remote) = 5
  /\ callRet.remote[5].parts = <<"c2", "c3", "c4">>

\* C25: fetch_issues called with issue_types = T returns exactly the issues
\* that are not pull requests and whose category is in T, each once and in
\* source order.
C25_IssueTypeFilter ==
  (callFn = "fetch_issues" /\ callArg.issue_types # <<>>) =>
    /\ callRet.raised = "none"
    /\ callRet.tickets =
         SelectSeq(callArg.source,
                   LAMBDA i : /\ ~i.pull_request
                              /\ \E j \in 1..Len(callArg.issue_types) :
                                   callArg.issue_types[j] = i.category)

\* C26: for every content of the index file that parses, also a document
\* without the tickets key or without the embeddings key or with lists of
\* different lengths, the store after construction holds tickets and
\* embeddings of equal length, or is empty.
C26_LoadRestoresPairs ==
  (backend = "local" /\ lastResult = "constructed"
     /\ disk.exists /\ JsonLoad(disk.content).ok) =>
    \/ Len(tickets) = Len(embeddings)
    \/ tickets = <<>> /\ embeddings = <<>>

\* C27: whenever no index_tickets call is in progress on the local store
\* and no write of the snapshot has failed, in particular after a call that
\* an embedding failure aborted, the in-memory store and the index file hold
\* the same entries.
C27_NothingUnpersistedAtRest ==
  (LocalIdle /\ fault \in {"none", "embedding"}) =>
    /\ Constructed(disk).tickets = tickets
    /\ Constructed(disk).embeddings = embeddings

\* C28: find_similar_tickets on the local store leaves tickets, embeddings
\* and the index file unchanged, for every query and k; no stored ticket
\* gains a similarity_score field, so a save would write what the file
\* holds; on an empty store it returns [] without reaching the embedding
\* call.
C28_SearchReadOnly ==
  /\ [][UNCHANGED <<tickets, embeddings, disk>>]_vars
  /\ [](\A i \in 1..Len(tickets) : "similarity_score" \notin DOMAIN tickets[i])
  /\ [](disk = File(JsonDump(tickets, embeddings)))
  /\ [][(fpc = "idle" /\ tickets = <<>>) =>
          (fpc' = "idle" /\ fOutcome' = "returned" /\ results' = <<>>)]_vars

\* a search over two stored tickets has returned both with their scores
C28_Witness ==
  /\ backend = "local" /\ fpc = "idle" /\ fOutcome = "returned"
  /\ Len(tickets) = 2 /\ Len(results) = 2
  /\ results[1].ticket = tickets[results[1].idx]
  /\ "similarity_score" \in DOMAIN results[1]

\* C29: on the remote store a call of upload_documents happens only when
\* the vectors and summaries of every ticket of the batch have been
\* produced; when an embedding call raises, no document of that call has
\* been uploaded and the index holds the documents it held, though the
\* index may have been created by the call.
C29_PrepareBeforeUpload ==
  /\ [][Len(sent') > Len(sent) =>
          /\ rpc = "upload"
          /\ Len(documents) = Len(rBatch)
          /\ embeddedPos = 1..Len(rBatch)]_vars
  /\ [][(backend = "azure" /\ fault' = "embedding") =>
          (sent' = <<>> /\ insertedPos' = {} /\ remoteDocs' = remoteDocs)]_vars

\* the second ticket's embedding failed after the call had created the
\* index and prepared the first document: nothing was uploaded
C29_Witness ==
  /\ backend = "azure" /\ fault = "embedding" /\ failedAt = 2
  /\ embeddedPos = {1} /\ created /\ indexExists
  /\ sent = <<>> /\ remoteDocs = {}

\* C30: _build_context adds the resolution-comments section for a neighbour
\* exactly when the neighbour is closed and has comments, with its last 2
\* comments in order, each cut to 300 characters; every result of the
\* remote find_similar_tickets has an empty comments list, so a context
\* built from remote results has no resolution-comments section, also for
\* closed tickets indexed with comments.
C30_ResolutionComments ==
  callFn = "_build_context" =>
    \A i \in 1..Len(callRet.context) :
      LET part == callRet.context[i]
          nb == callRet.similar_tickets[i]
          n == Len(nb.comments)
          section == {l \in 1..Len(part) : part[l].label = "Resolution comments:"}
          items == SelectSeq(part, LAMBDA l : l.label = "- ")
      IN /\ (section # {}) <=> (nb.state = "closed" /\ n > 0)
         /\ Cardinality(section) <= 1
         /\ section = {} => items = <<>>
         /\ section # {} =>
              /\ Len(items) = (IF n < 2 THEN n ELSE 2)
              /\ \A j \in 1..Len(items) :
                   LET c == nb.comments[n - Len(items) + j]
                   IN /\ items[j].parts[1].name = c.name
                      /\ items[j].parts[1].len = (IF c.len > 300 THEN 300 ELSE c.len)
         /\ callArg.source = "azure" => (nb.comments = <<>> /\ section = {})

\* a closed ticket indexed with three comments comes back from the remote
\* store without them and its part has no resolution-comments section
C30_Witness ==
  /\ callFn = "_build_context" /\ callArg.source = "azure"
  /\ Len(callArg.stored) = 2
  /\ callArg.stored[1].state = "closed" /\ Len(callArg.stored[1].comments) = 3
  /\ \A l \in 1..Len(callRet.context[1]) :
       callRet.context[1][l].label # "Resolution comments:"

====
